---- MODULE Spec2Model ----
(***************************************************************************)
(* Model of analyzer/analyzer.py: build_topology (link inference from      *)
(* interface addressing), NetworkSwitch (lazily created mailboxes),        *)
(* Router (one thread per selected device) and the menu loop of main.      *)
(*                                                                         *)
(* Time is counted in ticks of one poll interval (time.sleep(0.1)).        *)
(* IPv4 strings are modelled by the AddrBits-bit value they denote, by Bad *)
(* (a string ipaddress rejects) or by Absent (the key is not in the dict). *)
(***************************************************************************)
EXTENDS Integers, Sequences, FiniteSets, TLC

\* ------------------------------------------------------------------ bounds
AddrBits == 3
MaxDevices == 3
MaxIfaces == 3
MaxRuns == 2

\* ------------------------------------------------------- program constants
PollInterval == 1
HelloInterval == 20 * PollInterval
Duration == 100 * PollInterval

\* Python's None where the program expects a string.
None == "None"
OSPF_HELLO == "OSPF_HELLO"

\* The value of an interface's 'ip_address' or 'subnet_mask' key: a dotted string
\* denoting the AddrBits-bit value v, a string that is no IPv4 address, or no key.
Dotted(v) == [kind |-> "dotted", v |-> v]
Bad == [kind |-> "bad", v |-> 0]
Absent == [kind |-> "absent", v |-> 0]

VARIABLES
    devices_data,    \* main: network_devices_data, an insertion-ordered dict
    topology,        \* main: topology, the list build_topology returned
    pc,              \* main thread: where main() is
    router_threads,  \* main: router_threads, device ids of the Routers of the run
    routers,         \* the Router object of each device id (NoRouter: none)
    queues,          \* NetworkSwitch.queues: a dict from device id to its Queue
    now,             \* the clock time.time() reads
    k,               \* main: position in the for loop it is executing
    sleep_start,     \* main: the clock when time.sleep(10) was entered
    runs,            \* number of simulations started
    inflight,        \* history: per device id, the packets sent to it that no
                     \* receive_packet has returned yet, in the order of the puts
    shown            \* what choice '3' printed last since the last start

vars == <<devices_data, topology, pc, router_threads, routers, queues, now, k,
          sleep_start, runs, inflight, shown>>

simvars == <<router_threads, routers, queues, now, k, sleep_start, runs, inflight,
            shown>>

\* ------------------------------------------------------------- arithmetic
RECURSIVE Pow2(_)
Pow2(n) == IF n = 0 THEN 1 ELSE 2 * Pow2(n - 1)

RECURSIVE BitAnd(_, _)
BitAnd(a, b) ==
    IF a = 0 \/ b = 0 THEN 0
    ELSE 2 * BitAnd(a \div 2, b \div 2) + (IF a % 2 = 1 /\ b % 2 = 1 THEN 1 ELSE 0)

ALL_ONES == Pow2(AddrBits) - 1

Range(s) == {s[i] : i \in 1..Len(s)}

\* --------------------------------------------------- ipaddress (CPython)
Ok(v) == [ok |-> TRUE, v |-> v]
ValueError == [ok |-> FALSE, v |-> 0]

\* ipaddress._count_righthand_zero_bits(number, bits)
RECURSIVE count_righthand_zero_bits(_, _)
count_righthand_zero_bits(number, bits) ==
    IF number = 0 THEN bits
    ELSE IF number % 2 = 1 \/ bits = 0 THEN 0
    ELSE 1 + count_righthand_zero_bits(number \div 2, bits - 1)

\* ipaddress._prefix_from_ip_int: the prefix length of a netmask, or ValueError
\* when the ones of ip_int are not contiguous from the left.
prefix_from_ip_int(ip_int) ==
    LET trailing_zeroes == count_righthand_zero_bits(ip_int, AddrBits)
        prefixlen == AddrBits - trailing_zeroes
        leading_ones == ip_int \div Pow2(trailing_zeroes)
        all_ones == Pow2(prefixlen) - 1
    IN IF leading_ones # all_ones THEN ValueError ELSE Ok(prefixlen)

\* ipaddress._prefix_from_ip_string: a dotted mask is tried as a netmask, then,
\* inverted, as a hostmask; a string that is no address is a NetmaskValueError.
prefix_from_ip_string(mask) ==
    IF mask.kind # "dotted" THEN ValueError
    ELSE IF prefix_from_ip_int(mask.v).ok THEN prefix_from_ip_int(mask.v)
    ELSE prefix_from_ip_int(ALL_ONES - mask.v)

\* ipaddress._ip_int_from_prefix
ip_int_from_prefix(prefixlen) == ALL_ONES - (Pow2(AddrBits - prefixlen) - 1)

\* ipaddress.IPv4Interface(f"{ip}/{mask}").network: what IPv4Network.__eq__
\* compares (network_address, netmask), or ValueError (AddressValueError and
\* NetmaskValueError are both ValueErrors).
IPv4InterfaceNetwork(ip, mask) ==
    IF ip.kind # "dotted" THEN ValueError
    ELSE IF ~prefix_from_ip_string(mask).ok THEN ValueError
    ELSE LET netmask == ip_int_from_prefix(prefix_from_ip_string(mask).v)
         IN Ok(<<BitAnd(ip.v, netmask), netmask>>)

\* ---------------------------------------------------------- build_topology
Link(d1, i1, d2, i2) ==
    [from_device |-> d1.id, from_interface |-> i1.name,
     to_device |-> d2.id, to_interface |-> i2.name]

Appended(ls) == [raised |-> FALSE, links |-> ls]
KeyError == [raised |-> TRUE, links |-> <<>>]

\* The body of the innermost loop for one interface pair: the Links it appends
\* (none or one), or KeyError when int_details['subnet_mask'] raises one, which
\* the except clause (ValueError, AddressValueError) does not catch.
ComparePair(d1, i1, d2, i2) ==
    IF i1.ip_address # Absent /\ i2.ip_address # Absent
    THEN IF i1.subnet_mask = Absent THEN KeyError
         ELSE LET net1 == IPv4InterfaceNetwork(i1.ip_address, i1.subnet_mask)
              IN IF ~net1.ok THEN Appended(<<>>)
                 ELSE IF i2.subnet_mask = Absent THEN KeyError
                 ELSE LET net2 == IPv4InterfaceNetwork(i2.ip_address, i2.subnet_mask)
                      IN IF ~net2.ok THEN Appended(<<>>)
                         ELSE IF net1 = net2 THEN Appended(<<Link(d1, i1, d2, i2)>>)
                         ELSE Appended(<<>>)
    ELSE Appended(<<>>)

\* The second device index the inner loop starts from: range(i + 1, len(device_ids)).
FirstJ_fromI(i) == i

FirstJ(i) == i + 1

\* The loops of build_topology from position (i, j, a, b) on, links being the
\* list built so far: the returned list, or KeyError.
RECURSIVE build_from(_, _, _, _, _, _)
build_from(dd, i, j, a, b, links) ==
    IF i > Len(dd) THEN Appended(links)
    ELSE IF j > Len(dd) THEN build_from(dd, i + 1, FirstJ(i + 1), 1, 1, links)
    ELSE IF a > Len(dd[i].interfaces) THEN build_from(dd, i, j + 1, 1, 1, links)
    ELSE IF b > Len(dd[j].interfaces) THEN build_from(dd, i, j, a + 1, 1, links)
    ELSE LET r == ComparePair(dd[i], dd[i].interfaces[a], dd[j], dd[j].interfaces[b])
         IN IF r.raised THEN KeyError
            ELSE build_from(dd, i, j, a, b + 1, links \o r.links)

build_topology(dd) == build_from(dd, 1, FirstJ(1), 1, 1, <<>>)

\* ------------------------------------------------------------ the inputs
\* Device ids are folder names; the i-th device of a mapping is DeviceIds[i].
DeviceIds == <<"R1", "R2", "R3", "S1">>

AllIds == Range(DeviceIds)

\* "R" in device_id (main, the selection of the devices that get a Router).
ContainsR(id) == id \in {"R1", "R2", "R3"}

IfaceName(n) == <<"Gi0", n>>

Iface(n, ip, mask) == [name |-> IfaceName(n), ip_address |-> ip, subnet_mask |-> mask]

Device(id, hostname, ifs) == [id |-> id, hostname |-> hostname, interfaces |-> ifs]

\* The (ip_address, subnet_mask) values the inputs of build_topology draw from:
\* the same network twice, another network, the same network address under a
\* shorter mask, a hostmask, keys that are missing, strings that do not parse.
A1 == Dotted(ALL_ONES - 2)
A2 == Dotted(ALL_ONES - 3)
A3 == Dotted(2)
M1 == Dotted(ALL_ONES - 1)
M2 == Dotted(ALL_ONES - 3)
HostMask == Dotted(1)
NoMask == Dotted(ALL_ONES - 2)

AddrMaskChoices ==
    { <<A1, M1>>, <<A2, M1>>, <<A3, M1>>, <<A1, M2>>, <<A1, HostMask>>,
      <<A1, Absent>>, <<Absent, M1>>, <<Bad, M1>>, <<A1, NoMask>> }

RECURSIVE SumTo(_, _)
SumTo(cnt, n) == IF n = 0 THEN 0 ELSE cnt[n] + SumTo(cnt, n - 1)

\* The mapping of n devices in which device i has cnt[i] interfaces, the
\* interfaces taking their (ip_address, subnet_mask) from c in turn.
TopoInput(n, cnt, c) ==
    [i \in 1..n |->
        Device(DeviceIds[i], None,
               [a \in 1..cnt[i] |->
                   Iface(a, c[SumTo(cnt, i - 1) + a][1], c[SumTo(cnt, i - 1) + a][2])])]

\* The device mappings the simulation is run on.
NetA1 == <<A1, M1>>
NetA2 == <<A2, M1>>
NetB == <<A3, M1>>

Ifs(cs) == [n \in 1..Len(cs) |-> Iface(n, cs[n][1], cs[n][2])]

TwoRouters ==
    << Device("R1", "Router1", Ifs(<<NetA1>>)),
       Device("R2", "Router2", Ifs(<<NetA2>>)) >>

Scenarios ==
    { \* two Routers joined by one Link
      << Device("R1", "Router1", Ifs(<<NetA1>>)),
         Device("R2", "Router2", Ifs(<<NetA2>>)) >>,
      \* two Routers with the same neighbor, which gets no Router
      << Device("R1", "Router1", Ifs(<<NetA1>>)),
         Device("S1", "Switch1", Ifs(<<NetA2, NetB>>)),
         Device("R2", "Router2", Ifs(<<NetB>>)) >>,
      \* a Router whose only neighbor gets no Router, and a Router with no Link
      << Device("R1", "Router1", Ifs(<<NetA1>>)),
         Device("S1", "Switch1", Ifs(<<NetA2>>)),
         Device("R2", "Router2", Ifs(<<NetB>>)) >>,
      \* two Links between the same two devices; no hostname directive in R1
      << Device("R1", None, Ifs(<<NetA1, NetA2>>)),
         Device("R2", "Router2", Ifs(<<NetA2>>)) >>,
      \* no device is selected
      << Device("S1", "Switch1", Ifs(<<NetA1>>)) >> }

\* ----------------------------------------------------------- NetworkSwitch
Packet(source) == [source |-> source, type |-> OSPF_HELLO]

\* self.queues[d] finds a Queue (a miss enters the default factory, Queue()).
HasQueue(q, d) == d \in DOMAIN q

\* defaultdict.__missing__ after the factory returned: the new, empty Queue is
\* stored under d, replacing whatever another thread stored there meanwhile.
StoreQueue(q, d, items) == [x \in DOMAIN q \cup {d} |-> IF x = d THEN items ELSE q[x]]

NoQueues == [x \in {} |-> <<>>]

\* The packets in the mailbox of d: those of its Queue, none when it has no Queue.
Content(q, d) == IF HasQueue(q, d) THEN q[d] ELSE <<>>

\* History: the packets still due to d after receive_packet(d) has returned p.
Returned(due, p) == IF due # <<>> /\ Head(due) = p THEN Tail(due) ELSE due

\* ------------------------------------------------------------------ Router
NoRouter ==
    [st |-> "none", hostname |-> None, neighbors |-> <<>>, is_running |-> FALSE,
     log |-> <<>>, last_hello_time |-> 0, nidx |-> 0, slept_at |-> 0,
     first |-> TRUE]

\* Router.__init__: the neighbors, one per Link that names device_id, in Link order.
RECURSIVE Neighbors(_, _)
Neighbors(links, device_id) ==
    IF links = <<>> THEN <<>>
    ELSE LET link == Head(links)
             rest == Neighbors(Tail(links), device_id)
         IN IF link.from_device = device_id THEN <<link.to_device>> \o rest
            ELSE IF link.to_device = device_id THEN <<link.from_device>> \o rest
            ELSE rest

\* config_data.get('hostname', device_id)
Hostname(config, device_id) ==
    IF "hostname" \in DOMAIN config THEN config.hostname ELSE device_id

NewRouter(config, links) ==
    [st |-> "started", hostname |-> Hostname(config, config.id),
     neighbors |-> Neighbors(links, config.id), is_running |-> TRUE,
     log |-> <<>>, last_hello_time |-> 0, nidx |-> 0, slept_at |-> 0,
     first |-> TRUE]

\* Router.log_message: the entry appended ("[HH:MM:SS] [hostname] message"; the
\* time of day is left out).
LogEntry(hostname, kind, of) == [hostname |-> hostname, kind |-> kind, of |-> of]

Logged_Front(r, kind, of) == <<LogEntry(routers[r].hostname, kind, of)>> \o routers[r].log

Logged(r, kind, of) == Append(routers[r].log, LogEntry(routers[r].hostname, kind, of))

\* threading.Thread.is_alive: from start() until run() has returned.
is_alive(r) == routers[r].st \notin {"none", "done"}

\* ------------------------------------------------------------------- main
\* main, lines 127-134: load_configurations has returned devices_data; an empty
\* mapping ends the program, a KeyError out of build_topology ends it too.
MainBuildTopology ==
    /\ pc = "load"
    /\ IF devices_data = <<>>
       THEN pc' = "exit" /\ UNCHANGED topology
       ELSE LET r == build_topology(devices_data)
            IN IF r.raised
               THEN pc' = "crashed" /\ UNCHANGED topology
               ELSE pc' = "menu" /\ topology' = r.links
    /\ UNCHANGED <<devices_data, simvars>>

\* What choice '3' prints: nothing yet, the no-simulation message, or the logs.
NotShown == [kind |-> "nothing", logs |-> <<>>]
NoSimulation == [kind |-> "no_simulation", logs |-> <<>>]
Logs(ls) == [kind |-> "logs", logs |-> ls]

\* choice '2', lines 150-155: busy when a Router of the last run is alive,
\* otherwise router_threads = [] and the loop over the devices begins.
MenuStart ==
    /\ pc = "menu"
    /\ runs < MaxRuns
    /\ IF \E i \in 1..Len(router_threads) : is_alive(router_threads[i])
       THEN UNCHANGED vars
       ELSE /\ router_threads' = <<>>
            /\ routers' = [d \in AllIds |-> NoRouter]
            /\ k' = 1
            /\ pc' = "create"
            /\ runs' = runs + 1
            /\ shown' = NotShown
            /\ UNCHANGED <<devices_data, topology, queues, now, sleep_start, inflight>>

\* lines 156-163: one pass of the loop over the devices (a Router is built,
\* appended and started for a selected device), then time.sleep(10) is entered.
MainCreate ==
    /\ pc = "create"
    /\ IF k > Len(devices_data)
       THEN /\ pc' = "sleep"
            /\ sleep_start' = now
            /\ UNCHANGED <<router_threads, routers, k>>
       ELSE /\ k' = k + 1
            /\ IF ContainsR(devices_data[k].id)
               THEN /\ routers' = [routers EXCEPT ![devices_data[k].id] =
                                      NewRouter(devices_data[k], topology)]
                    /\ router_threads' = Append(router_threads, devices_data[k].id)
               ELSE UNCHANGED <<router_threads, routers>>
            /\ UNCHANGED <<pc, sleep_start>>
    /\ UNCHANGED <<devices_data, topology, queues, now, runs, shown, inflight>>

\* line 163: time.sleep(10) returns once ten seconds have passed.
MainSleepDone ==
    /\ pc = "sleep"
    /\ now >= sleep_start + Duration
    /\ pc' = "stop"
    /\ k' = 1
    /\ UNCHANGED <<devices_data, topology, router_threads, routers, queues, now,
                   sleep_start, runs, shown, inflight>>

\* lines 165-166: router.is_running = False, one Router per step.
MainStop ==
    /\ pc = "stop"
    /\ IF k > Len(router_threads)
       THEN pc' = "join" /\ k' = 1 /\ UNCHANGED routers
       ELSE /\ routers' = [routers EXCEPT ![router_threads[k]].is_running = FALSE]
            /\ k' = k + 1
            /\ UNCHANGED pc
    /\ UNCHANGED <<devices_data, topology, router_threads, queues, now, sleep_start,
                   runs, shown, inflight>>

\* t.join() returns when the thread is no longer alive.
JoinReturns_NoWait(r) == TRUE

JoinReturns(r) == ~is_alive(r)

\* lines 168-170: the joins, one Router per step, then back to the menu.
MainJoin ==
    /\ pc = "join"
    /\ IF k > Len(router_threads)
       THEN pc' = "menu" /\ UNCHANGED k
       ELSE /\ JoinReturns(router_threads[k])
            /\ k' = k + 1
            /\ UNCHANGED pc
    /\ UNCHANGED <<devices_data, topology, router_threads, routers, queues, now,
                   sleep_start, runs, shown, inflight>>

\* The order of the hostnames as strings.
Rank(hostname) ==
    CASE hostname = "Router1" -> 1
      [] hostname = "Router2" -> 2
      [] hostname = "Switch1" -> 3
      [] OTHER -> 0

\* sorted(router_threads, key=lambda r: r.hostname): a stable insertion sort.
RECURSIVE Insert(_, _)
Insert(r, sorted) ==
    IF sorted = <<>> THEN <<r>>
    ELSE IF Rank(routers[r].hostname) < Rank(routers[Head(sorted)].hostname)
         THEN <<r>> \o sorted
         ELSE <<Head(sorted)>> \o Insert(r, Tail(sorted))

RECURSIVE Sorted(_)
Sorted(rs) == IF rs = <<>> THEN <<>> ELSE Insert(rs[Len(rs)], Sorted(SubSeq(rs, 1, Len(rs) - 1)))

\* sorted compares two keys when there are two Routers or more; comparing None
\* with a string or with None raises TypeError.
SortRaises(rs) ==
    Len(rs) >= 2 /\ \E i \in 1..Len(rs) : routers[rs[i]].hostname = None

\* choice '3', lines 172-181: the no-simulation message when router_threads is
\* empty, otherwise the logs of the Routers in the order of their hostnames; a
\* TypeError out of sorted ends the program.
MenuLogs ==
    /\ pc = "menu"
    /\ IF router_threads = <<>>
       THEN shown' = NoSimulation /\ UNCHANGED pc
       ELSE IF SortRaises(router_threads)
            THEN pc' = "crashed" /\ UNCHANGED shown
            ELSE /\ shown' = Logs([i \in 1..Len(router_threads) |->
                                    [hostname |-> routers[Sorted(router_threads)[i]].hostname,
                                     log |-> routers[Sorted(router_threads)[i]].log]])
                 /\ UNCHANGED pc
    /\ UNCHANGED <<devices_data, topology, router_threads, routers, queues, now, k,
                   sleep_start, runs, inflight>>

\* choice '4', lines 183-185.
MenuExit ==
    /\ pc = "menu"
    /\ pc' = "exit"
    /\ UNCHANGED <<devices_data, topology, simvars>>

\* ------------------------------------------------------------- Router.run
Set(r, rec) == [routers EXCEPT ![r] = rec]

\* lines 95-96: the thread has begun to run.
RouterStart(r) ==
    /\ routers[r].st = "started"
    /\ routers' = Set(r, [routers[r] EXCEPT
            !.log = Logged(r, "started", routers[r].neighbors),
            !.last_hello_time = 0,
            !.st = "loop"])
    /\ UNCHANGED <<devices_data, topology, pc, router_threads, queues, now, k,
                   sleep_start, runs, shown, inflight>>

\* line 98: while self.is_running, the flag as the Router thread reads it.
LoopTest_Stale(r) == TRUE

LoopTest(r) == routers[r].is_running

\* line 98 and line 115: the test of is_running; the loop is left and
\* "Thread finished." is logged when it is False.
RouterLoop(r) ==
    /\ routers[r].st = "loop"
    /\ routers' = Set(r,
            IF LoopTest(r)
            THEN [routers[r] EXCEPT !.st = "recv"]
            ELSE [routers[r] EXCEPT !.log = Logged(r, "finished", <<>>),
                                    !.st = "done"])
    /\ UNCHANGED <<devices_data, topology, pc, router_threads, queues, now, k,
                   sleep_start, runs, shown, inflight>>

\* line 100: the device id the Router passes to receive_packet, self.device_id.
Mailbox_Neighbor(r) == IF routers[r].neighbors = <<>> THEN r ELSE routers[r].neighbors[1]

Mailbox(r) == r

\* line 70: get(block=False), the block argument of Queue.get.
Block_True == TRUE

Block == FALSE

\* lines 100-102 with receive_packet, lines 68-72: the Queue of the own device id
\* is looked up; a packet it holds is taken and logged; a miss enters Queue().
RouterReceive(r) ==
    /\ routers[r].st = "recv"
    /\ IF HasQueue(queues, Mailbox(r))
       THEN IF queues[Mailbox(r)] # <<>>
            THEN /\ queues' = [queues EXCEPT ![Mailbox(r)] = Tail(queues[Mailbox(r)])]
                 /\ inflight' = [inflight EXCEPT ![Mailbox(r)] =
                                    Returned(inflight[Mailbox(r)], Head(queues[Mailbox(r)]))]
                 /\ routers' = Set(r, [routers[r] EXCEPT
                        !.log = Logged(r, "received",
                                       <<Head(queues[Mailbox(r)]).type,
                                         Head(queues[Mailbox(r)]).source>>),
                        !.st = "check", !.first = FALSE])
            ELSE /\ ~Block
                 /\ routers' = Set(r, [routers[r] EXCEPT !.st = "check", !.first = FALSE])
                 /\ UNCHANGED <<queues, inflight>>
       ELSE /\ routers' = Set(r, [routers[r] EXCEPT !.st = "recv_new"])
            /\ UNCHANGED <<queues, inflight>>
    /\ UNCHANGED <<devices_data, topology, pc, router_threads, now, k, sleep_start,
                   runs, shown>>

\* receive_packet after a miss: the new Queue is stored and get(block=False) on
\* it raises Empty, so None is returned.
RouterReceiveNew(r) ==
    /\ routers[r].st = "recv_new"
    /\ ~Block
    /\ queues' = StoreQueue(queues, Mailbox(r), <<>>)
    /\ routers' = Set(r, [routers[r] EXCEPT !.st = "check", !.first = FALSE])
    /\ UNCHANGED <<devices_data, topology, pc, router_threads, now, k, sleep_start,
                   runs, shown, inflight>>

\* line 106: time.time() - last_hello_time > 2
HelloDue_AtLeast(t, last_hello_time) == t - last_hello_time >= HelloInterval

HelloDue(t, last_hello_time) == t - last_hello_time > HelloInterval

\* line 106 and line 113: the test; when it fails the Router goes to sleep.
RouterCheck(r) ==
    /\ routers[r].st = "check"
    /\ routers' = Set(r,
            IF HelloDue(now, routers[r].last_hello_time)
            THEN [routers[r] EXCEPT !.st = "send", !.nidx = 1]
            ELSE [routers[r] EXCEPT !.st = "sleep", !.slept_at = now])
    /\ UNCHANGED <<devices_data, topology, pc, router_threads, queues, now, k,
                   sleep_start, runs, shown, inflight>>

\* line 107: the neighbors the for loop sends to.
HelloTargets_OrSelf(r) == IF routers[r].neighbors = <<>> THEN <<r>> ELSE routers[r].neighbors

HelloTargets(r) == routers[r].neighbors

\* lines 107-113 with send_packet, lines 65-66: one pass of the for loop (the
\* packet is put on the neighbor's Queue and the send is logged; a miss enters
\* Queue()), or, after the last pass, last_hello_time = time.time() and the sleep.
RouterSend(r) ==
    /\ routers[r].st = "send"
    /\ IF routers[r].nidx > Len(HelloTargets(r))
       THEN /\ routers' = Set(r, [routers[r] EXCEPT
                    !.last_hello_time = now, !.st = "sleep", !.slept_at = now])
            /\ UNCHANGED <<queues, inflight>>
       ELSE LET d == HelloTargets(r)[routers[r].nidx]
                p == Packet(routers[r].hostname)
            IN IF HasQueue(queues, d)
               THEN /\ queues' = [queues EXCEPT ![d] = Append(queues[d], p)]
                    /\ inflight' = [inflight EXCEPT ![d] = Append(inflight[d], p)]
                    /\ routers' = Set(r, [routers[r] EXCEPT
                            !.log = Logged(r, "sent", <<d>>),
                            !.nidx = routers[r].nidx + 1])
               ELSE /\ routers' = Set(r, [routers[r] EXCEPT !.st = "send_new"])
                    /\ UNCHANGED <<queues, inflight>>
    /\ UNCHANGED <<devices_data, topology, pc, router_threads, now, k, sleep_start,
                   runs, shown>>

\* send_packet after a miss: the new Queue is stored and the packet put on it.
RouterSendNew(r) ==
    /\ routers[r].st = "send_new"
    /\ LET d == HelloTargets(r)[routers[r].nidx]
           p == Packet(routers[r].hostname)
       IN /\ queues' = StoreQueue(queues, d, <<p>>)
          /\ inflight' = [inflight EXCEPT ![d] = Append(inflight[d], p)]
          /\ routers' = Set(r, [routers[r] EXCEPT
                  !.log = Logged(r, "sent", <<d>>),
                  !.nidx = routers[r].nidx + 1,
                  !.st = "send"])
    /\ UNCHANGED <<devices_data, topology, pc, router_threads, now, k, sleep_start,
                   runs, shown>>

\* line 113: time.sleep(0.1) returns once a poll interval has passed.
RouterWake(r) ==
    /\ routers[r].st = "sleep"
    /\ now >= routers[r].slept_at + PollInterval
    /\ routers' = Set(r, [routers[r] EXCEPT !.st = "loop"])
    /\ UNCHANGED <<devices_data, topology, pc, router_threads, queues, now, k,
                   sleep_start, runs, shown, inflight>>

RouterStep(r) ==
    \/ RouterStart(r)
    \/ RouterLoop(r)
    \/ RouterReceive(r)
    \/ RouterReceiveNew(r)
    \/ RouterCheck(r)
    \/ RouterSend(r)
    \/ RouterSendNew(r)
    \/ RouterWake(r)

\* ------------------------------------------------------------------ clock
Sleeping(r) == routers[r].st = "sleep" /\ now < routers[r].slept_at + PollInterval

MainSleeping == pc = "sleep" /\ now < sleep_start + Duration

\* Spec reads the clock when the Routers are started and next when
\* time.sleep(10) is due to return; while main waits in a join for a Router that
\* is in time.sleep(0.1), the clock advances by poll intervals. The threads that
\* could run are kept waiting for any length of time.
Tick ==
    /\ MainSleeping \/ (pc = "join" /\ \E r \in AllIds : Sleeping(r))
    /\ now' = IF MainSleeping THEN sleep_start + Duration ELSE now + PollInterval
    /\ UNCHANGED <<devices_data, topology, pc, router_threads, routers, queues, k,
                   sleep_start, runs, shown, inflight>>

\* The longest a thread whose sleep is over is kept waiting in the timed runs.
MaxDelay == PollInterval

\* A Router that must take its next step before the clock advances: it is in the
\* middle of a pass of its loop, or its sleep has been over for MaxDelay.
Urgent(r) ==
    \/ routers[r].st \in {"started", "loop", "recv", "recv_new", "check", "send", "send_new"}
    \/ routers[r].st = "sleep" /\ now >= routers[r].slept_at + PollInterval + MaxDelay

MainUrgent ==
    \/ pc \in {"create", "stop"}
    \/ pc = "sleep" /\ now >= sleep_start + Duration + MaxDelay
    \/ pc = "join" /\ (k > Len(router_threads) \/ JoinReturns(router_threads[k]))

\* The clock advances by one poll interval while a thread is in a sleep, unless
\* that would keep a thread waiting for more than MaxDelay.
TickPrompt ==
    /\ pc = "sleep" \/ \E r \in AllIds : routers[r].st = "sleep"
    /\ ~MainUrgent
    /\ \A r \in AllIds : ~Urgent(r)
    /\ now' = now + PollInterval
    /\ UNCHANGED <<devices_data, topology, pc, router_threads, routers, queues, k,
                   sleep_start, runs, shown, inflight>>

\* ---------------------------------------------------------- specifications
\* The clock when the program starts: more than a hello interval past 0, as
\* time.time() is on a machine whose clock is set.
Epoch == HelloInterval + PollInterval

InitSim ==
    /\ topology = <<>>
    /\ pc = "load"
    /\ router_threads = <<>>
    /\ routers = [d \in AllIds |-> NoRouter]
    /\ queues = NoQueues
    /\ k = 0
    /\ sleep_start = 0
    /\ runs = 0
    /\ inflight = [d \in AllIds |-> <<>>]
    /\ shown = NotShown

Init == devices_data \in Scenarios /\ InitSim /\ now = Epoch

Next ==
    \/ MainBuildTopology
    \/ MenuStart
    \/ MainCreate
    \/ MainSleepDone
    \/ MainStop
    \/ MainJoin
    \/ MenuLogs
    \/ MenuExit
    \/ \E r \in AllIds : RouterStep(r)
    \/ Tick

\* Every interleaving of main and of the Router threads, for at most MaxRuns runs.
Spec == Init /\ [][Next]_vars

\* build_topology on every mapping of at most MaxDevices devices that have at
\* most MaxIfaces interfaces between them.
InitTopo ==
    /\ \E n \in 0..MaxDevices : \E cnt \in [1..n -> 0..MaxIfaces] :
          /\ SumTo(cnt, n) <= MaxIfaces
          /\ \E c \in [1..SumTo(cnt, n) -> AddrMaskChoices] :
                devices_data = TopoInput(n, cnt, c)
    /\ InitSim
    /\ now = Epoch

NextTopo == MainBuildTopology

SpecTopo == InitTopo /\ [][NextTopo]_vars

\* One run on two Routers joined by one Link, with every tick of the clock and
\* with no thread that can run kept waiting for more than a poll interval.
InitTimed ==
    /\ devices_data = TwoRouters
    /\ InitSim
    /\ now = Epoch

\* A Router in the middle of a pass of its loop.
InPass(r) == routers[r].st \in {"recv", "recv_new", "check", "send", "send_new"}

\* In the timed runs a pass of a loop takes no time and runs to its sleep before
\* another thread takes a step.
Turn(r) == \A q \in AllIds \ {r} : ~InPass(q)

MainTurn == \A q \in AllIds : ~InPass(q)

NextTimed ==
    \/ MainBuildTopology
    \/ MenuStart /\ runs = 0
    \/ MainCreate /\ MainTurn
    \/ MainSleepDone /\ MainTurn
    \/ MainStop /\ MainTurn
    \/ MainJoin /\ MainTurn
    \/ \E r \in AllIds : Turn(r) /\ RouterStep(r)
    \/ TickPrompt

SpecTimed == InitTimed /\ [][NextTimed]_vars

\* One run with every interleaving, in which the clock advances and every
\* thread that can take a step, main and each Router, eventually takes one
\* (the choices at the menu are the user's and are not forced).
NextLive ==
    \/ MainBuildTopology
    \/ MenuStart /\ runs = 0
    \/ MainCreate
    \/ MainSleepDone
    \/ MainStop
    \/ MainJoin
    \/ MenuLogs
    \/ MenuExit
    \/ \E r \in AllIds : RouterStep(r)
    \/ Tick

Fairness ==
    /\ WF_vars(MainCreate)
    /\ WF_vars(MainSleepDone)
    /\ WF_vars(MainStop)
    /\ WF_vars(MainJoin)
    /\ WF_vars(Tick)
    /\ \A r \in AllIds : WF_vars(RouterStep(r))

SpecLive == Init /\ [][NextLive]_vars /\ Fairness

\* ------------------------------------------------- claims: build_topology
Endpoint(d, i) == <<d.id, i.name>>

LinkEnds(l) == {<<l.from_device, l.from_interface>>, <<l.to_device, l.to_interface>>}

\* The interface records of the mapping, each with its device.
IfacePlaces == {<<i, a>> \in (1..Len(devices_data)) \X (1..MaxIfaces + 1) :
                    a <= Len(devices_data[i].interfaces)}

DevOf(p) == devices_data[p[1]]

IfOf(p) == devices_data[p[1]].interfaces[p[2]]

\* An interface has a network when its address and its mask are IPv4 strings
\* and the mask is a subnet mask (ones, then zeroes).
HasNetwork(i) ==
    /\ i.ip_address.kind = "dotted"
    /\ i.subnet_mask.kind = "dotted"
    /\ prefix_from_ip_int(i.subnet_mask.v).ok

\* The network of the claims: the address masked by the subnet mask.
MaskedAddress(i) == BitAnd(i.ip_address.v, i.subnet_mask.v)

LinksBetween(p, q) ==
    {n \in 1..Len(topology) :
        LinkEnds(topology[n]) = {Endpoint(DevOf(p), IfOf(p)), Endpoint(DevOf(q), IfOf(q))}}

\* C1: once main has called build_topology, it has returned a list that holds
\* exactly one Link for every two interfaces of distinct devices whose masked
\* addresses are equal, and no Link for two interfaces whose masked addresses differ.
C1_OneLinkPerSharedNetwork ==
    pc # "load" =>
        /\ pc # "crashed"
        /\ \A p \in IfacePlaces, q \in IfacePlaces :
              (p[1] # q[1] /\ HasNetwork(IfOf(p)) /\ HasNetwork(IfOf(q))) =>
                 IF MaskedAddress(IfOf(p)) = MaskedAddress(IfOf(q))
                 THEN Cardinality(LinksBetween(p, q)) = 1
                 ELSE LinksBetween(p, q) = {}

\* C2: no Link of the list build_topology returned joins a device to itself.
C2_NoSelfLink ==
    \A n \in 1..Len(topology) : topology[n].from_device # topology[n].to_device

\* C2's case: a list with a Link was returned for a mapping in which two
\* interfaces of one device are in the same network.
C2_Witness ==
    /\ pc = "menu"
    /\ topology # <<>>
    /\ \E p \in IfacePlaces, q \in IfacePlaces :
          /\ p[1] = q[1] /\ p[2] # q[2]
          /\ IPv4InterfaceNetwork(IfOf(p).ip_address, IfOf(p).subnet_mask).ok
          /\ IPv4InterfaceNetwork(IfOf(q).ip_address, IfOf(q).subnet_mask).ok
          /\ IPv4InterfaceNetwork(IfOf(p).ip_address, IfOf(p).subnet_mask).v
               = IPv4InterfaceNetwork(IfOf(q).ip_address, IfOf(q).subnet_mask).v

\* An interface with a missing key or a string that is no IPv4 address.
Unusable(i) == i.ip_address.kind # "dotted" \/ i.subnet_mask.kind # "dotted"

\* C3: build_topology never fails, and the list it returns holds no Link with an
\* interface that lacks its address or its mask or has one that does not parse.
C3_NeverFails ==
    /\ pc # "crashed"
    /\ \A p \in IfacePlaces :
          Unusable(IfOf(p)) =>
             \A n \in 1..Len(topology) : Endpoint(DevOf(p), IfOf(p)) \notin LinkEnds(topology[n])

\* -------------------------------------------------- claims: NetworkSwitch
\* C4: in every interleaving of the senders, the packets a mailbox holds are the
\* packets put into it that no receive_packet has returned yet, in the order of
\* the puts: none lost, none duplicated, none out of order.
C4_FifoNoLoss ==
    \A d \in AllIds : Content(queues, d) = inflight[d]

\* receive_packet(r) returns in this step.
ReceiveReturns(r) ==
    /\ routers[r].st \in {"recv", "recv_new"}
    /\ routers'[r].st = "check"

\* C5: a receive_packet(r) that returns on a mailbox holding packets removes the
\* oldest and returns it (the Router logs it); on a mailbox holding none it
\* returns none and leaves the mailbox empty; the mailboxes of the other
\* devices hold what they held.
C5_ReceiveFrame ==
    [][\A r \in AllIds : ReceiveReturns(r) =>
          /\ \A d \in AllIds \ {r} : Content(queues', d) = Content(queues, d)
          /\ IF Content(queues, r) # <<>>
             THEN /\ Content(queues', r) = Tail(Content(queues, r))
                  /\ routers'[r].log =
                        Logged(r, "received", <<Head(Content(queues, r)).type,
                                                Head(Content(queues, r)).source>>)
             ELSE /\ Content(queues', r) = <<>>
                  /\ routers'[r].log = routers[r].log]_vars

\* C6: when a Router's first receive_packet returns and packets have been sent
\* to its device id before, the oldest of them is what the receive returns.
C6_KeptUntilFirstReceive ==
    [][\A r \in AllIds :
          (routers[r].first /\ ~routers'[r].first /\ inflight[r] # <<>>) =>
             routers'[r].log =
                Logged(r, "received", <<Head(inflight[r]).type, Head(inflight[r]).source>>)]_vars

\* ----------------------------------------------------------- claims: main
\* main is back at the menu only when no Router is alive, so the test of line
\* 150 never finds a Router alive (the busy answer of C7 is never given).
MenuFindsNoRouterAlive ==
    pc = "menu" => \A r \in AllIds : ~is_alive(r)

\* C8: when a simulation has been started and main is back at the menu, every
\* Router of the run has left its loop and its thread has finished.
C8_StartReturnsAfterAllStopped ==
    (pc = "menu" /\ runs > 0) =>
        \A i \in 1..Len(router_threads) : routers[router_threads[i]].st = "done"

\* C8's case: a run with at least two Routers has returned to the menu.
C8_Witness ==
    /\ pc = "menu"
    /\ runs > 0
    /\ Len(router_threads) >= 2

\* ---------------------------------------------------------- claims: Router
SentEntries(r) == {n \in 1..Len(routers[r].log) : routers[r].log[n].kind = "sent"}

\* C9: a Router that has no neighbors is never in send_packet and never logs a
\* send, and once it has stopped its log is the started entry followed by the
\* finished entry.
C9_NoNeighborsNoSend ==
    \A r \in AllIds :
        (routers[r].st # "none" /\ routers[r].neighbors = <<>>) =>
            /\ routers[r].st # "send_new"
            /\ ~(routers[r].st = "send" /\ routers[r].nidx <= Len(routers[r].neighbors))
            /\ SentEntries(r) = {}
            /\ routers[r].st = "done" =>
                  /\ Len(routers[r].log) = 2
                  /\ routers[r].log[1].kind = "started"
                  /\ routers[r].log[2].kind = "finished"

\* C9's case: a Router with no neighbors has run for the whole simulation,
\* beside a Router that sent hellos, and has stopped.
C9_Witness ==
    \E r \in AllIds, q \in AllIds :
        /\ routers[r].st = "done"
        /\ routers[r].neighbors = <<>>
        /\ now >= sleep_start + Duration
        /\ SentEntries(q) # {}

\* The run of the simulation is over: main is back at the menu.
RunComplete == pc = "menu" /\ runs > 0

C11_LogsAfterAnyRun ==
    /\ shown.kind = "no_simulation" => runs = 0
    /\ shown.kind = "logs" => runs > 0
    /\ pc = "crashed" => runs = 0

\* ------------------------------------------------------- claims: the runs
\* A run has been accepted and none of its Routers has been created yet.
RunStarts == pc = "create" /\ k = 1

\* C12: when a run starts every mailbox is empty, so no packet of an earlier
\* run is there for a Router of this run to receive.
C12_FreshMailboxes ==
    RunStarts => \A d \in AllIds : Content(queues, d) = <<>>

\* ------------------------------------------------- claims: Router hostname
\* The parsed configuration of a device id that is in the mapping.
ConfigOf(id) == CHOOSE d \in Range(devices_data) : d.id = id

\* No hostname directive was parsed for the device.
NoHostnameDirective(id) == ConfigOf(id).hostname = None

\* C13: a Router built from a configuration without a hostname directive has
\* its device id as hostname, in every entry of its log and as the source of
\* every packet it has put into a mailbox.
C13_HostnameDefaultsToId ==
    \A r \in AllIds :
        (routers[r].st # "none" /\ NoHostnameDirective(r)) =>
            /\ routers[r].hostname = r
            /\ \A n \in 1..Len(routers[r].log) : routers[r].log[n].hostname = r
            /\ \A n \in 1..Len(routers[r].neighbors) :
                  \A m \in 1..Len(Content(queues, routers[r].neighbors[n])) :
                      Content(queues, routers[r].neighbors[n])[m].source # None

\* ------------------------------------------------- claims: the hello test
\* The Router r takes the hello test of line 106 in this step.
TakesHelloTest(r) == routers[r].st = "check" /\ routers'[r].st # "check"

\* The Router has not broadcast yet in this run.
NotYetBroadcast(r) == routers[r].last_hello_time = 0

\* C14: a Router whose hello test finds that it has not broadcast yet, or that
\* a hello interval or more has passed since its last broadcast (exactly one
\* interval included), broadcasts in that iteration.
C14_BroadcastWhenIntervalElapsed ==
    [][\A r \in AllIds :
          (TakesHelloTest(r) /\ (NotYetBroadcast(r)
                                 \/ now - routers[r].last_hello_time >= HelloInterval)) =>
             routers'[r].st = "send"]_vars

\* ----------------------------------------------- claims: hello broadcasts
\* The Router is in the for loop of lines 107-110.
Broadcasting(r) == routers[r].st \in {"send", "send_new"}

\* The log entries the Router has appended in the broadcast it is in.
BroadcastEntries(r) ==
    SubSeq(routers[r].log, Len(routers[r].log) - routers[r].nidx + 2, Len(routers[r].log))

\* C15: the entries a Router appends in one broadcast are sent entries for
\* pairwise distinct neighbor devices, and once the for loop is over there is
\* one for each neighbor device.
C15_OnePacketPerNeighborDevice ==
    \A r \in AllIds :
        Broadcasting(r) =>
            LET es == BroadcastEntries(r)
            IN /\ \A n \in 1..Len(es) : es[n].kind = "sent"
               /\ \A n \in 1..Len(es), m \in 1..Len(es) : n # m => es[n].of # es[m].of
               /\ routers[r].nidx > Len(routers[r].neighbors) =>
                     {es[n].of[1] : n \in 1..Len(es)} = Range(routers[r].neighbors)

\* --------------------------------------------------- claims: the shutdown
\* main has cleared the running flag of a Router that has not finished.
FlagCleared(r) == is_alive(r) /\ ~routers[r].is_running

\* The Router has left its loop and logged "Thread finished.".
Stopped(r) ==
    /\ routers[r].st = "done"
    /\ routers[r].log[Len(routers[r].log)].kind = "finished"

\* main is inside an accepted start (lines 154-170).
InStart == pc \in {"create", "sleep", "stop", "join"}

\* C16: a Router whose flag has been cleared eventually stops with its
\* finished entry logged, every accepted start eventually returns to the
\* menu, and a Router that has stopped takes no further step.
C16_StopIsEventual ==
    /\ \A r \in AllIds : FlagCleared(r) ~> Stopped(r)
    /\ InStart ~> pc = "menu"
    /\ [][\A r \in AllIds : routers[r].st = "done" => routers'[r] = routers[r]]_vars

\* C16's case: the flags of two live Routers have been cleared.
C16_Witness ==
    /\ pc = "join"
    /\ \E r \in AllIds, q \in AllIds : r # q /\ FlagCleared(r) /\ FlagCleared(q)
                                            /\ routers[r].st = "sleep"

\* ------------------------------------------------------- claims: the logs
\* The log of r grows by one entry at its end in this step.
Appends(r) ==
    /\ Len(routers'[r].log) = Len(routers[r].log) + 1
    /\ SubSeq(routers'[r].log, 1, Len(routers[r].log)) = routers[r].log

\* The step is one of the thread of Router r alone.
OwnStep(r) ==
    /\ pc' = pc
    /\ router_threads' = router_threads
    /\ \A q \in AllIds \ {r} : routers'[q] = routers[q]

\* The next run replaces the Routers: main resets router_threads.
Replaced == pc = "menu" /\ pc' = "create"

\* C17: once the run is over the log of each of its Routers ends with the
\* finished entry and stays as it is until the next run replaces the Routers;
\* a log that is not empty begins with the started entry; a log changes only by
\* its own Router appending one entry at its end.
C17_LogsAppendOnlyThenStable ==
    /\ [](RunComplete =>
            \A i \in 1..Len(router_threads) :
                routers[router_threads[i]].log[Len(routers[router_threads[i]].log)].kind
                    = "finished")
    /\ [](\A r \in AllIds :
            routers[r].log # <<>> => routers[r].log[1].kind = "started")
    /\ [][\A r \in AllIds :
            \/ routers'[r].log = routers[r].log
            \/ Replaced
            \/ ~RunComplete /\ Appends(r) /\ OwnStep(r)]_vars

\* C17's case: a second run is over, its Routers have logged what they sent and
\* received, and the logs have been shown.
C17_Witness ==
    /\ RunComplete
    /\ runs = 2
    /\ shown.kind = "logs"
    /\ \E r \in AllIds : Len(routers[r].log) >= 5

\* How far a Router is in the iteration it is in: the receive, the hello test,
\* the broadcast, the sleep, the test of the flag, the end of the thread.
Phase(st) ==
    CASE st \in {"none", "started"} -> 0
      [] st \in {"recv", "recv_new"} -> 1
      [] st = "check" -> 2
      [] st \in {"send", "send_new"} -> 3
      [] st = "sleep" -> 4
      [] st = "loop" -> 5
      [] st = "done" -> 6

\* C18: a Router whose flag has been cleared only moves forward in the
\* iteration it is in (it does not go back to a receive or a broadcast once
\* those are behind it, and it begins no new iteration), and in a log the
\* finished entry has no entry after it.
C18_AtMostCurrentIteration ==
    /\ [][\A r \in AllIds :
            (FlagCleared(r) /\ ~routers'[r].is_running) =>
                /\ Phase(routers'[r].st) >= Phase(routers[r].st)
                /\ routers[r].st = "loop" => routers'[r].st \in {"loop", "done"}]_vars
    /\ [](\A r \in AllIds : \A n \in 1..Len(routers[r].log) :
            routers[r].log[n].kind = "finished" => n = Len(routers[r].log))

\* C18's case: a Router is in a broadcast, having sent a packet, after main
\* cleared its flag.
C18_Witness ==
    \E r \in AllIds :
        /\ FlagCleared(r)
        /\ routers[r].st = "send"
        /\ routers[r].nidx > 1

\* ------------------------------------------------ claims: hello spacing
\* The Router ends a broadcast in this step (line 111), not its first one.
NextBroadcastEnds(r) ==
    /\ routers[r].st = "send"
    /\ routers'[r].st = "sleep"
    /\ ~NotYetBroadcast(r)

\* The time between the broadcast that ends in this step and the one before.
Separation(r) == routers'[r].last_hello_time - routers[r].last_hello_time

LogsReceived(r) ==
    /\ Len(routers'[r].log) = Len(routers[r].log) + 1
    /\ routers'[r].log[Len(routers'[r].log)].kind = "received"

\* The devices that get a Router whose hostname is the given source and whose
\* neighbor list holds d.
SendersTo(d, source) ==
    {i \in 1..Len(devices_data) :
        /\ ContainsR(devices_data[i].id)
        /\ Hostname(devices_data[i], devices_data[i].id) = source
        /\ d \in Range(Neighbors(topology, devices_data[i].id))}

\* C20: a step in which a Router logs a received entry is one receive of its
\* iteration (from the receive to the hello test); it takes the oldest packet
\* out of the mailbox of the Router's own device id and leaves every other
\* mailbox as it is; the packet is one that was sent to that device id and not
\* received before, by a Router that has the device id among its neighbors.
\* No mailbox ever holds more packets than were sent to it and not received.
C20_ReceivesOwnMailboxOnly ==
    /\ [][\A r \in AllIds :
            LogsReceived(r) =>
                /\ routers[r].st = "recv" /\ routers'[r].st = "check"
                /\ Content(queues, r) # <<>>
                /\ Content(queues', r) = Tail(Content(queues, r))
                /\ routers'[r].log[Len(routers'[r].log)].of =
                      <<Head(Content(queues, r)).type, Head(Content(queues, r)).source>>
                /\ \A d \in AllIds \ {r} : Content(queues', d) = Content(queues, d)
                /\ Head(Content(queues, r)) \in Range(inflight[r])
                /\ Len(inflight'[r]) = Len(inflight[r]) - 1
                /\ SendersTo(r, Head(Content(queues, r)).source) # {}]_vars
    /\ [](\A d \in AllIds : Len(Content(queues, d)) <= Len(inflight[d]))

\* C20's case: a Router of the second run has received a packet while packets
\* for another device are in that device's mailbox.
C20_Witness ==
    \E r \in AllIds, d \in AllIds :
        /\ r # d
        /\ runs = 2
        /\ Len(routers[r].log) >= 2
        /\ routers[r].log[Len(routers[r].log)].kind = "received"
        /\ Content(queues, d) # <<>>

====
